---- MODULE Spec2Model ----
(***************************************************************************)
(* Model of logutil.py: the multi-file log search-and-merge tool.          *)
(*                                                                         *)
(* Strings are sequences of one-character strings, so that startswith,     *)
(* strip, "in", replace and the date regular expression are computed on    *)
(* the characters as Python computes them.  A physical line keeps its      *)
(* trailing newline, as file.readline() returns it; the empty sequence is  *)
(* readline()'s answer at end of file.                                     *)
(***************************************************************************)
EXTENDS Integers, Sequences, FiniteSets, TLC

VARIABLES
    files,      \* the directory: file name -> content (sequence of physical lines)
    arguments,  \* the parsed Arguments of the run
    run,        \* the state of one run of grep_for_logs
    twin        \* a second run of grep_for_logs over the same files and arguments

vars == <<files, arguments, run, twin>>

---------------------------------------------------------------------------
(* Characters                                                              *)

NL == "\n"
ESC == "ESC"    \* the single character '\033'

Digits == {"0", "1", "2", "3", "4", "5", "6", "7", "8", "9"}

Whitespace == {" ", "\t", "\n", "\r"}

\* Code points of the characters that occur in the modelled inputs
\* (Python compares strings by code point).
CodePoint ==
    [c \in {"\t", "\n", "\r", ESC, " ", "-", ".", "/", ":", "["} \cup Digits
           \cup {"a", "b", "c", "e", "g", "k", "l", "m", "o", "t", "x"} |->
        CASE c = "\t" -> 9   [] c = "\n" -> 10  [] c = "\r" -> 13
          [] c = ESC  -> 27  [] c = " "  -> 32  [] c = "-"  -> 45
          [] c = "."  -> 46  [] c = "/"  -> 47
          [] c = "0"  -> 48  [] c = "1"  -> 49  [] c = "2"  -> 50
          [] c = "3"  -> 51  [] c = "4"  -> 52  [] c = "5"  -> 53
          [] c = "6"  -> 54  [] c = "7"  -> 55  [] c = "8"  -> 56
          [] c = "9"  -> 57  [] c = ":"  -> 58  [] c = "["  -> 91
          [] c = "a"  -> 97  [] c = "b"  -> 98  [] c = "c"  -> 99
          [] c = "e"  -> 101 [] c = "g"  -> 103 [] c = "k"  -> 107
          [] c = "l"  -> 108 [] c = "m"  -> 109 [] c = "o"  -> 111
          [] c = "t"  -> 116 [] c = "x"  -> 120]

\* Python's str < str: lexicographic by code point, a proper prefix is smaller.
RECURSIVE StrLess(_, _)
StrLess(s, t) ==
    IF t = <<>> THEN FALSE
    ELSE IF s = <<>> THEN TRUE
    ELSE IF s[1] = t[1] THEN StrLess(Tail(s), Tail(t))
    ELSE CodePoint[s[1]] < CodePoint[t[1]]

StrLeq(s, t) == s = t \/ StrLess(s, t)

\* str.startswith(prefix)
startswith(s, prefix) ==
    /\ Len(s) >= Len(prefix)
    /\ SubSeq(s, 1, Len(prefix)) = prefix

\* The least index at which sub occurs in s, 0 if it does not (str.find + 1).
find(s, sub) ==
    LET hits == {i \in 1..(Len(s) - Len(sub) + 1) : SubSeq(s, i, i + Len(sub) - 1) = sub}
    IN  IF hits = {} THEN 0 ELSE CHOOSE i \in hits : \A j \in hits : i <= j

\* Python's "sub in s"
contains(s, sub) == find(s, sub) > 0

\* str.strip(): leading and trailing whitespace removed.
strip(s) ==
    LET keep == {i \in 1..Len(s) : s[i] \notin Whitespace}
    IN  IF keep = {} THEN <<>>
        ELSE SubSeq(s, CHOOSE i \in keep : \A j \in keep : i <= j,
                       CHOOSE i \in keep : \A j \in keep : i >= j)

\* str.replace(old, new, count): the first count non-overlapping occurrences,
\* scanned left to right; the replacement text is not scanned again.
RECURSIVE replace(_, _, _, _)
replace(s, old, new, count) ==
    LET i == find(s, old)
    IN  IF count = 0 \/ i = 0 THEN s
        ELSE SubSeq(s, 1, i - 1) \o new
             \o replace(SubSeq(s, i + Len(old), Len(s)), old, new, count - 1)

---------------------------------------------------------------------------
(* bcolors and the key extractor                                           *)

BOLD == <<ESC, "[", "1", "m">>
WARNING == <<ESC, "[", "9", "3", "m">>
ENDC == <<ESC, "[", "0", "m">>

ReplaceCount == 9999

\* date_pattern: "d" stands for \d, any other entry for itself.
date_pattern ==
    <<"d", "d", "d", "d", "-", "d", "d", "-", "d", "d", " ",
      "d", "d", ":", "d", "d", ":", "d", "d", ".", "d", "d", "d">>

\* date_pattern.match(line): anchored at the start of the line.
get_date(line) ==
    IF /\ Len(line) >= Len(date_pattern)
       /\ \A i \in 1..Len(date_pattern) :
             IF date_pattern[i] = "d" THEN line[i] \in Digits
             ELSE line[i] = date_pattern[i]
    THEN SubSeq(line, 1, Len(date_pattern))
    ELSE <<>>

---------------------------------------------------------------------------
(* class LogFile                                                           *)

\* No MatchKeyMissingError.
NoError == [file_name |-> <<>>, line_number |-> 0, line |-> <<>>]

\* MatchKeyMissingError(f"Cannot extract date: file {file_name}, line number
\* {current_line_number}:\n{current_line}"): the message by its three fields.
MatchKeyMissingError(file_name, current_line_number, current_line) ==
    [file_name |-> file_name, line_number |-> current_line_number,
     line |-> current_line]

\* file.readline() on a file of which pos lines were read.
readline(content, pos) ==
    IF pos < Len(content) THEN content[pos + 1] ELSE <<>>

\* LogFile.read_next_line_from_file
read_next_line_from_file(lf, content) ==
    [lf EXCEPT !.next_line = readline(content, lf.pos),
               !.pos = IF lf.pos < Len(content) THEN lf.pos + 1 ELSE lf.pos,
               !.line_number = lf.line_number + 1]

\* The record-start marker of read_line.
RecordStart == <<"2", "0">>

\* An inner loop that never appends what it reads.
RECURSIVE fold_continuations_drop(_, _, _)
fold_continuations_drop(lf, content, full_exceptions) ==
    IF lf.next_line # <<>> /\ ~startswith(lf.next_line, <<"2", "0">>)
    THEN fold_continuations_drop(read_next_line_from_file(lf, content),
                                 content, full_exceptions)
    ELSE lf

\* The inner loop of read_line: the lines up to the next record start are
\* read, and appended to current_line only if full_exceptions is set.
RECURSIVE fold_continuations(_, _, _)
fold_continuations(lf, content, full_exceptions) ==
    IF lf.next_line # <<>> /\ ~startswith(lf.next_line, RecordStart)
    THEN fold_continuations(
             read_next_line_from_file(
                 IF full_exceptions
                 THEN [lf EXCEPT !.current_line = lf.current_line \o lf.next_line]
                 ELSE lf,
                 content),
             content, full_exceptions)
    ELSE lf

\* An emphasis put around the first occurrence only.
highlight_first(line, search_expression) ==
    replace(line, search_expression,
            BOLD \o WARNING \o search_expression \o ENDC, 1)

\* The emphasis put around the search term.
highlight(line, search_expression) ==
    replace(line, search_expression,
            BOLD \o WARNING \o search_expression \o ENDC, ReplaceCount)

\* A read_line that raises on a missing key whatever the flag.
raise_on_missing_key_always(args) == TRUE

\* A read_line that never raises on a missing key.
raise_on_missing_key_never(args) == FALSE

\* What read_line does with a matching line whose key is empty:
\* TRUE to raise MatchKeyMissingError, FALSE to note the line and go on.
raise_on_missing_key(args) == args.break_on_date_missing

\* The key read_line takes from the line it highlighted.
extract_match_key(highlighted) == get_date(highlighted)

\* LogFile.read_line: [log_file |-> the LogFile afterwards,
\*                     error |-> the MatchKeyMissingError raised, or NoError].
RECURSIVE read_line(_, _, _)
read_line(lf, content, args) ==
    LET current_line_number == lf.line_number
        taken == [lf EXCEPT !.current_line = lf.next_line]
    IN  IF taken.current_line = <<>>
        THEN [log_file |-> [taken EXCEPT !.eof = TRUE], error |-> NoError]
        ELSE
          LET ahead == read_next_line_from_file(taken, content)
              folded == IF startswith(ahead.current_line, RecordStart)
                        THEN fold_continuations(ahead, content, args.show_exceptions)
                        ELSE ahead
              stripped == [folded EXCEPT !.current_line = strip(folded.current_line)]
          IN  IF /\ Len(stripped.current_line) > 0
                 /\ contains(stripped.current_line, args.search_expression)
              THEN
                LET marked == highlight(stripped.current_line, args.search_expression)
                    matched == [stripped EXCEPT
                                   !.current_line = marked,
                                   !.current_match = extract_match_key(marked)]
                IN  IF Len(matched.current_match) > 0
                    THEN [log_file |-> matched, error |-> NoError]
                    ELSE IF raise_on_missing_key(args)
                    THEN [log_file |-> matched,
                          error |-> MatchKeyMissingError(matched.file_name,
                                        current_line_number, matched.current_line)]
                    ELSE read_line(
                             [matched EXCEPT !.missing_date_lines =
                                 Append(@, [line_number |-> current_line_number,
                                            line |-> matched.current_line])],
                             content, args)
              ELSE read_line(stripped, content, args)

\* A LogFile that counts the look-ahead lines from 1.
NewLogFile_from_one(file_name) ==
    [file_name |-> file_name, current_line |-> <<>>, current_match |-> <<>>,
     next_line |-> <<>>, line_number |-> 1, eof |-> FALSE,
     missing_date_lines |-> <<>>, pos |-> 0]

\* LogFile.__init__ up to and including open(): nothing read yet.
\* current_line, current_match and next_line are not yet attributes; they
\* are written before they are read.
NewLogFile(file_name) ==
    [file_name |-> file_name, current_line |-> <<>>, current_match |-> <<>>,
     next_line |-> <<>>, line_number |-> 0, eof |-> FALSE,
     missing_date_lines |-> <<>>, pos |-> 0]

\* A constructor without the first read_line().
LogFileInit_no_prefetch(file_name, content, args) ==
    [log_file |-> read_next_line_from_file(NewLogFile(file_name), content),
     error |-> NoError]

\* LogFile.__init__: open, read the look-ahead line, fetch the first record.
LogFileInit(file_name, content, args) ==
    read_line(read_next_line_from_file(NewLogFile(file_name), content),
              content, args)

---------------------------------------------------------------------------
(* grep_for_logs                                                           *)

MaxFiles == 20

\* str.endswith(suffix)
endswith(s, suffix) ==
    /\ Len(s) >= Len(suffix)
    /\ SubSeq(s, Len(s) - Len(suffix) + 1, Len(s)) = suffix

\* Arguments.log_file_name_suffix
log_file_name_suffix == <<".", "l", "o", "g">>

\* get_log_file_names: the entries of the directory, in the order
\* os.listdir gave them, that are files named *.log.
get_log_file_names(listing) ==
    SelectSeq(listing, LAMBDA name : endswith(name, log_file_name_suffix))

\* list.sort() on file names.
RECURSIVE sort(_)
sort(names) ==
    IF names = <<>> THEN <<>>
    ELSE LET i == CHOOSE i \in 1..Len(names) :
                      \A j \in 1..Len(names) : StrLeq(names[i], names[j])
         IN  <<names[i]>> \o sort(SubSeq(names, 1, i - 1) \o SubSeq(names, i + 1, Len(names)))

\* The file names without file_names.sort().
sorted_file_names_unsorted(listing) == get_log_file_names(listing)

\* The file names grep_for_logs works on, from a directory listing.
sorted_file_names(listing) == sort(get_log_file_names(listing))

\* A merge loop that takes the first open file instead of the one with the
\* least key.
min_open_position_first(open_files, log_files) == 1

\* A min that keeps the last of the elements with the least key.
min_open_position_last(open_files, log_files) ==
    CHOOSE p \in 1..Len(open_files) :
        /\ \A q \in 1..Len(open_files) :
              StrLeq(log_files[open_files[p]].current_match,
                     log_files[open_files[q]].current_match)
        /\ \A q \in (p + 1)..Len(open_files) :
              log_files[open_files[q]].current_match
                  # log_files[open_files[p]].current_match

\* min(open_files, key=lambda x: x.current_match): the position in open_files
\* of the first element whose key no other element is below.
min_open_position(open_files, log_files) ==
    CHOOSE p \in 1..Len(open_files) :
        /\ \A q \in 1..Len(open_files) :
              StrLeq(log_files[open_files[p]].current_match,
                     log_files[open_files[q]].current_match)
        /\ \A q \in 1..(p - 1) :
              log_files[open_files[q]].current_match
                  # log_files[open_files[p]].current_match

\* One line on standard output.
\*   "record": a line of the merged timeline; line is min_open.current_line,
\*             key the current_match it was chosen by, file_name its LogFile
\*   "header": the header of the missing-key summary
\*   "file":   "File: <file_name>"
\*   "line":   "  Line <line_number>: <line>"
\* Arguments.show_file_name decides nothing but the characters written for
\* a "record" (lines 191-192), which rendered gives for either value of it.
Printed(kind, file_name, key, line_number, line) ==
    [kind |-> kind, file_name |-> file_name, key |-> key,
     line_number |-> line_number, line |-> line]

\* re.sub(r'^.*/', '', file_name): the name after the last "/".
simple_file_name(file_name) ==
    LET slashes == {i \in 1..Len(file_name) : file_name[i] = "/"}
    IN  IF slashes = {} THEN file_name
        ELSE SubSeq(file_name, 1 + CHOOSE i \in slashes : \A j \in slashes : i >= j,
                    Len(file_name))

OKBLUE == <<ESC, "[", "9", "4", "m">>

\* The characters print(line) writes for a "record" (without the newline).
rendered(entry, show_file_name) ==
    IF show_file_name
    THEN OKBLUE \o simple_file_name(entry.file_name) \o ENDC \o <<":">> \o entry.line
    ELSE entry.line

\* print_missing_date_lines: what it prints for the files from index i on.
RECURSIVE missing_date_block(_, _)
missing_date_block(log_files, i) ==
    IF i > Len(log_files) THEN <<>>
    ELSE (IF Len(log_files[i].missing_date_lines) > 0
          THEN <<Printed("file", log_files[i].file_name, <<>>, 0, <<>>)>>
               \o [k \in 1..Len(log_files[i].missing_date_lines) |->
                      Printed("line", <<>>, <<>>,
                              log_files[i].missing_date_lines[k].line_number,
                              log_files[i].missing_date_lines[k].line)]
          ELSE <<>>)
         \o missing_date_block(log_files, i + 1)

print_missing_date_lines(log_files) ==
    LET block == missing_date_block(log_files, 1)
    IN  IF block = <<>> THEN <<>>
        ELSE <<Printed("header", <<>>, <<>>, 0, <<>>)>> \o block

\* The run before grep_for_logs is entered.
\*   pc: "start"   before get_log_file_names
\*       "create"  in the loop that constructs the LogFiles
\*       "merge"   in the merge loop
\*       "done"    returned normally (exit code 0)
\*       "died"    die() was called (exit code 1, message on stderr)
\*       "crashed" MatchKeyMissingError left grep_for_logs uncaught
\*                 (exit code 1, traceback with the message on stderr)
\*   open_handles: the names of the files opened and not closed
NewRun ==
    [pc |-> "start", file_names |-> <<>>, log_files |-> <<>>, open_files |-> <<>>,
     stdout |-> <<>>, stderr |-> NoError, open_handles |-> {}]

\* Lines 162-167: the file names are listed and sorted; over MaxFiles, die.
StartStep(s, listing) ==
    LET file_names == sorted_file_names(listing)
    IN  IF Len(file_names) > MaxFiles
        THEN [s EXCEPT !.pc = "died", !.file_names = file_names]
        ELSE [s EXCEPT !.pc = "create", !.file_names = file_names]

\* Lines 170-176, one iteration: the next LogFile is constructed.  Its file
\* is opened; when the first read_line raises, the error leaves
\* grep_for_logs (the loop is outside the try).
ConstructStep(s, fs, args) ==
    LET name == s.file_names[Len(s.log_files) + 1]
        made == LogFileInit(name, fs[name], args)
    IN  IF made.error # NoError
        THEN [s EXCEPT !.pc = "crashed",
                       !.stderr = made.error,
                       !.open_handles = @ \cup {name}]
        ELSE [s EXCEPT !.log_files = Append(@, made.log_file),
                       !.open_handles = @ \cup {name}]

\* open_files taken to be all the files.
BeginMergeStep_unfiltered(s) ==
    [s EXCEPT !.pc = "merge",
              !.open_files = [i \in 1..Len(s.log_files) |-> i]]

\* Lines 178-179: the try is entered, open_files are the files not at eof.
BeginMergeStep(s) ==
    [s EXCEPT !.pc = "merge",
              !.open_files = SelectSeq([i \in 1..Len(s.log_files) |-> i],
                                       LAMBDA i : ~s.log_files[i].eof)]

\* A removal of the first element of the list, whatever was found.
remove_at_first(seq, p) == Tail(seq)

\* A loop that leaves the exhausted source in open_files.
remove_at_none(seq, p) == seq

\* list.remove(x) at the position x was found.
remove_at(seq, p) == SubSeq(seq, 1, p - 1) \o SubSeq(seq, p + 1, Len(seq))

\* [log_file.close() for log_file in log_files]
close_all(open_handles, log_files) ==
    open_handles \ {log_files[i].file_name : i \in 1..Len(log_files)}

\* An iteration that prints the record of the source with the least key but
\* advances the first open source.
MergeIteration_advances_first(s, fs, args) ==
    LET min_open == s.log_files[s.open_files[min_open_position(s.open_files, s.log_files)]]
        i == s.open_files[1]
        printed == Append(s.stdout,
                          Printed("record", min_open.file_name, min_open.current_match,
                                  0, min_open.current_line))
        advanced == read_line(s.log_files[i], fs[s.log_files[i].file_name], args)
        log_files == [s.log_files EXCEPT ![i] = advanced.log_file]
    IN  IF advanced.error # NoError
        THEN [s EXCEPT !.pc = "died",
                       !.stdout = printed,
                       !.stderr = advanced.error,
                       !.log_files = log_files,
                       !.open_handles = close_all(@, log_files)]
        ELSE [s EXCEPT !.stdout = printed,
                       !.log_files = log_files,
                       !.open_files = IF advanced.log_file.eof
                                      THEN remove_at(@, 1) ELSE @]

\* Lines 187-198, one iteration of the merge loop with open_files not empty;
\* when read_line raises: lines 201-204, die and close.
MergeIteration(s, fs, args) ==
    LET p == min_open_position(s.open_files, s.log_files)
        i == s.open_files[p]
        min_open == s.log_files[i]
        printed == Append(s.stdout,
                          Printed("record", min_open.file_name, min_open.current_match,
                                  0, min_open.current_line))
        advanced == read_line(min_open, fs[min_open.file_name], args)
        log_files == [s.log_files EXCEPT ![i] = advanced.log_file]
    IN  IF advanced.error # NoError
        THEN [s EXCEPT !.pc = "died",
                       !.stdout = printed,
                       !.stderr = advanced.error,
                       !.log_files = log_files,
                       !.open_handles = close_all(@, log_files)]
        ELSE [s EXCEPT !.stdout = printed,
                       !.log_files = log_files,
                       !.open_files = IF advanced.log_file.eof
                                      THEN remove_at(@, p) ELSE @]

\* Lines 184-185, 200 and 204: open_files is empty, the loop is left, the
\* missing-key summary is printed and the files are closed.
FinishStep(s) ==
    [s EXCEPT !.pc = "done",
              !.stdout = @ \o print_missing_date_lines(s.log_files),
              !.open_handles = close_all(@, s.log_files)]

---------------------------------------------------------------------------
(* The inputs: a directory of log files, a search term and the flags       *)

\* The files hold at most MaxLines physical lines altogether.
MaxLines == 3

\* "2024-01-01 hh:00:00.000"
Stamp(hh) ==
    <<"2", "0", "2", "4", "-", "0", "1", "-", "0", "1", " ">> \o hh
    \o <<":", "0", "0", ":", "0", "0", ".", "0", "0", "0">>

\* "2024-01-01 09:00:00.000 boom\n"
LineA == Stamp(<<"0", "9">>) \o <<" ", "b", "o", "o", "m", NL>>
\* "2024-01-01 10:00:00.000 boom 09\n"
LineB == Stamp(<<"1", "0">>) \o <<" ", "b", "o", "o", "m", " ", "0", "9", NL>>
\* " at 09\n": no record start
LineC == <<" ", "a", "t", " ", "0", "9", NL>>
\* "20 boom\n": a record start without a timestamp
LineD == <<"2", "0", " ", "b", "o", "o", "m", NL>>

Pool == {LineA, LineB, LineC, LineD}

Terms == {<<"b", "o", "o", "m">>, <<"0", "9">>}

\* os.path.join('.', file) for the three files of the directory '.'
FileNames ==
    {<<".", "/", "a", ".", "l", "o", "g">>, <<".", "/", "b", ".", "l", "o", "g">>,
     <<".", "/", "c", ".", "l", "o", "g">>}

\* The orders in which os.listdir may give the directory's entries.
Listings ==
    {l \in [1..Cardinality(FileNames) -> FileNames] :
        \A i, j \in 1..Cardinality(FileNames) : l[i] = l[j] => i = j}

\* The directories: every way of cutting at most MaxLines lines of the
\* pool into the three files.
Directories ==
    UNION {UNION {UNION {{[n \in FileNames |->
                             CASE n[3] = "a" -> SubSeq(all, 1, c1)
                               [] n[3] = "b" -> SubSeq(all, c1 + 1, c2)
                               [] OTHER      -> SubSeq(all, c2 + 1, t)] :
                          c1 \in 0..c2} : c2 \in 0..t} :
                  all \in [1..t -> Pool]} :
           t \in 0..MaxLines}

ArgumentSpace ==
    [search_expression : Terms, show_exceptions : BOOLEAN,
     break_on_date_missing : BOOLEAN]

Init ==
    /\ files \in Directories
    /\ arguments \in ArgumentSpace
    /\ run = NewRun
    /\ twin = NewRun

---------------------------------------------------------------------------
(* One run                                                                 *)

Start ==
    /\ run.pc = "start"
    /\ \E listing \in Listings : run' = StartStep(run, listing)
    /\ UNCHANGED <<files, arguments, twin>>

Construct ==
    /\ run.pc = "create"
    /\ Len(run.log_files) < Len(run.file_names)
    /\ run' = ConstructStep(run, files, arguments)
    /\ UNCHANGED <<files, arguments, twin>>

BeginMerge ==
    /\ run.pc = "create"
    /\ Len(run.log_files) = Len(run.file_names)
    /\ run' = BeginMergeStep(run)
    /\ UNCHANGED <<files, arguments, twin>>

MergeStep ==
    /\ run.pc = "merge"
    /\ run.open_files # <<>>
    /\ run' = MergeIteration(run, files, arguments)
    /\ UNCHANGED <<files, arguments, twin>>

Finish ==
    /\ run.pc = "merge"
    /\ run.open_files = <<>>
    /\ run' = FinishStep(run)
    /\ UNCHANGED <<files, arguments, twin>>

Next == Start \/ Construct \/ BeginMerge \/ MergeStep \/ Finish

Spec == Init /\ [][Next]_vars

---------------------------------------------------------------------------
(* Two runs over the same files and arguments, stepped side by side        *)

Exited(s) == s.pc \in {"done", "died", "crashed"}

\* The states one step of grep_for_logs can lead to from s.
Steps(s, fs, args) ==
    IF s.pc = "start" THEN {StartStep(s, listing) : listing \in Listings}
    ELSE IF s.pc = "create" /\ Len(s.log_files) < Len(s.file_names)
    THEN {ConstructStep(s, fs, args)}
    ELSE IF s.pc = "create" THEN {BeginMergeStep(s)}
    ELSE IF s.pc = "merge" /\ s.open_files # <<>>
    THEN {MergeIteration(s, fs, args)}
    ELSE IF s.pc = "merge" THEN {FinishStep(s)}
    ELSE {s}

BothStep ==
    /\ ~(Exited(run) /\ Exited(twin))
    /\ run' \in Steps(run, files, arguments)
    /\ twin' \in Steps(twin, files, arguments)
    /\ UNCHANGED <<files, arguments>>

NextTwin == BothStep

SpecTwin == Init /\ [][NextTwin]_vars

---------------------------------------------------------------------------
(* A strict-key run and a run with -i over the same files, search term and *)
(* folding flag, stepped side by side                                      *)

\* The arguments with -i (ignore_missing_date) given.
NonStrict(args) == [args EXCEPT !.break_on_date_missing = FALSE]

InitModes ==
    /\ Init
    /\ arguments.break_on_date_missing

\* run is the strict-key run, twin the run with -i.
BothModesStep ==
    /\ ~(Exited(run) /\ Exited(twin))
    /\ run' \in Steps(run, files, arguments)
    /\ twin' \in Steps(twin, files, NonStrict(arguments))
    /\ UNCHANGED <<files, arguments>>

NextModes == BothModesStep

SpecModes == InitModes /\ [][NextModes]_vars

---------------------------------------------------------------------------
(* The logical lines of a file, as read_line cuts it (lines 102-110): a    *)
(* physical line starts a logical line when it is a record start, or when  *)
(* no record start precedes it in the file; a record start takes the       *)
(* lines up to the next record start with it.                              *)

IsRecordStart(line) == startswith(line, RecordStart)

LogicalStarts(content) ==
    {n \in 1..Len(content) :
        \/ IsRecordStart(content[n])
        \/ \A k \in 1..n : ~IsRecordStart(content[k])}

\* The last physical line of the logical line that starts at line n.
LogicalEnd(content, n) ==
    IF IsRecordStart(content[n])
    THEN CHOOSE m \in n..Len(content) :
            /\ \A k \in (n + 1)..m : ~IsRecordStart(content[k])
            /\ m = Len(content) \/ IsRecordStart(content[m + 1])
    ELSE n

RECURSIVE Concat(_, _, _)
Concat(content, from, to) ==
    IF from > to THEN <<>> ELSE content[from] \o Concat(content, from + 1, to)

\* The text of the logical line that starts at line n, trimmed.
LogicalText(content, n, args) ==
    strip(IF args.show_exceptions THEN Concat(content, n, LogicalEnd(content, n))
          ELSE content[n])

\* The logical line at n contains the search term.
Matches(content, n, args) ==
    contains(LogicalText(content, n, args), args.search_expression)

\* The logical lines of a file from line n on, in file order: for each the
\* number of its first line, whether it contains the search term and, if
\* it does, the text read_line keeps for it and the key read_line extracts.
RECURSIVE LinesFrom(_, _, _)
LinesFrom(content, n, args) ==
    IF n > Len(content) THEN <<>>
    ELSE LET text == LogicalText(content, n, args)
             matches == contains(text, args.search_expression)
             line == IF matches THEN highlight(text, args.search_expression) ELSE text
         IN  <<[line_number |-> n, matches |-> matches, line |-> line,
                key |-> IF matches THEN extract_match_key(line) ELSE <<>>]>>
             \o LinesFrom(content, LogicalEnd(content, n) + 1, args)

LogicalLines(content, args) == LinesFrom(content, 1, args)

\* The matching logical lines read_line finds no key for, as it notes them
\* in missing_date_lines, and those it finds a key for.
RECURSIVE KeylessOf(_)
KeylessOf(lines) ==
    IF lines = <<>> THEN <<>>
    ELSE (IF lines[1].matches /\ lines[1].key = <<>>
          THEN <<[line_number |-> lines[1].line_number, line |-> lines[1].line]>>
          ELSE <<>>)
         \o KeylessOf(Tail(lines))

KeyedOf(lines) == SelectSeq(lines, LAMBDA l : l.matches /\ l.key # <<>>)

\* The records of the merged timeline printed so far.
Timeline(s) == SelectSeq(s.stdout, LAMBDA e : e.kind = "record")

\* The lines of the missing-key summary printed so far.
Summary(s) == SelectSeq(s.stdout, LAMBDA e : e.kind # "record")

Aborted(s) == s.pc \in {"died", "crashed"}

---------------------------------------------------------------------------
(* C1: the printed timeline is sorted by key                               *)

\* C1 (as claimed): for all input files, with no restriction on the order of
\* the lines inside a file, any two consecutively emitted records r1, r2
\* have key(r1) <= key(r2).
C1_TimelineSorted ==
    \A i \in 1..(Len(Timeline(run)) - 1) :
        StrLeq(Timeline(run)[i].key, Timeline(run)[i + 1].key)

\* C1 (amended): any two consecutively emitted records that come from
\* different sources have key(r1) <= key(r2); the order may only descend
\* between two consecutive records of one source.
C1_SortedAcrossSources ==
    \A i \in 1..(Len(Timeline(run)) - 1) :
        \/ StrLeq(Timeline(run)[i].key, Timeline(run)[i + 1].key)
        \/ Timeline(run)[i].file_name = Timeline(run)[i + 1].file_name

\* Two consecutive records of different sources, the second with the greater
\* key, and after them a record of the second source with a smaller key.
C1_Witness ==
    /\ Len(Timeline(run)) = 3
    /\ Timeline(run)[1].file_name # Timeline(run)[2].file_name
    /\ StrLess(Timeline(run)[1].key, Timeline(run)[2].key)
    /\ Timeline(run)[2].file_name = Timeline(run)[3].file_name
    /\ StrLess(Timeline(run)[3].key, Timeline(run)[2].key)

---------------------------------------------------------------------------
(* C2: every file opened is closed on every exit path                      *)

\* C2 (as claimed): when the run has exited, normally or on the missing-key
\* error raised at any advance of a source, the first read in the
\* constructor included, no file opened by the run is left open.
C2_ClosedOnEveryExit == Exited(run) => run.open_handles = {}

---------------------------------------------------------------------------
(* C3: strict-key mode aborts at the first matching line without a key     *)

\* The source lf has taken the logical line that starts at line n.
ReadPast(lf, n) == n < lf.line_number

\* C3: in strict-key mode no source ever gets past a matching logical line
\* without a key: the run is aborted in the step that reaches it, the error
\* names the file and the first line of that logical line, which is the
\* first such line of that file, every source constructed before is short
\* of its own such lines, and nothing but timeline records was printed (no
\* summary); a run that ends normally met no such line.
C3_StrictAbort ==
    arguments.break_on_date_missing =>
        /\ \A i \in 1..Len(run.log_files) :
              LET lf == run.log_files[i]
                  keyless == KeylessOf(LogicalLines(files[lf.file_name], arguments))
                  passed == SelectSeq(keyless, LAMBDA r : ReadPast(lf, r.line_number))
              IN  /\ lf.missing_date_lines = <<>>
                  /\ IF run.pc = "died" /\ run.stderr.file_name = lf.file_name
                     THEN passed = <<[line_number |-> run.stderr.line_number,
                                      line |-> run.stderr.line]>>
                     ELSE passed = <<>>
        /\ Aborted(run) =>
              /\ run.stderr.file_name \in FileNames
              /\ LET keyless == KeylessOf(LogicalLines(files[run.stderr.file_name],
                                                       arguments))
                 IN  /\ keyless # <<>>
                     /\ keyless[1] = [line_number |-> run.stderr.line_number,
                                      line |-> run.stderr.line]
        /\ Summary(run) = <<>>
        /\ run.pc = "done" =>
              \A name \in FileNames :
                  KeylessOf(LogicalLines(files[name], arguments)) = <<>>

\* A strict run that printed a record and was then aborted by the source it
\* advanced, at a line after the first of its file.
C3_Witness ==
    /\ arguments.break_on_date_missing
    /\ run.pc = "died"
    /\ Timeline(run) # <<>>
    /\ run.stderr.line_number > 1

---------------------------------------------------------------------------
(* C4: non-strict mode defers the matching lines without a key             *)

\* The summary of a whole directory: the header, then for each file with
\* matching lines without a key its name and these lines in file order.
RECURSIVE SummaryBlocks(_, _, _)
SummaryBlocks(names, fs, args) ==
    IF names = <<>> THEN <<>>
    ELSE LET missing == KeylessOf(LogicalLines(fs[names[1]], args))
         IN  (IF missing = <<>> THEN <<>>
              ELSE <<Printed("file", names[1], <<>>, 0, <<>>)>>
                   \o [k \in 1..Len(missing) |->
                          Printed("line", <<>>, <<>>, missing[k].line_number,
                                  missing[k].line)])
             \o SummaryBlocks(Tail(names), fs, args)

ExpectedSummary(names, fs, args) ==
    LET blocks == SummaryBlocks(names, fs, args)
    IN  IF blocks = <<>> THEN <<>>
        ELSE <<Printed("header", <<>>, <<>>, 0, <<>>)>> \o blocks

\* The records of the timeline that come from one file.
EmittedOf(s, name) == SelectSeq(Timeline(s), LAMBDA e : e.file_name = name)

\* C4: in non-strict mode the run never aborts; each source holds in
\* missing_date_lines, once each and in file order, exactly the matching
\* logical lines without a key it has read, with their first line's number;
\* none of them is printed in the timeline; nothing of the summary is
\* printed before the run is done, and then the output is the timeline
\* followed by the summary, which lists these lines under their own file,
\* also for the sources that printed no record.
C4_NonStrictSummary ==
    ~arguments.break_on_date_missing =>
        /\ ~Aborted(run)
        /\ \A i \in 1..Len(run.log_files) :
              LET lf == run.log_files[i]
                  keyless == KeylessOf(LogicalLines(files[lf.file_name], arguments))
                  emitted == EmittedOf(run, lf.file_name)
              IN  /\ lf.missing_date_lines =
                        SelectSeq(keyless, LAMBDA r : ReadPast(lf, r.line_number))
                  /\ \A k \in 1..Len(emitted) :
                        /\ emitted[k].key # <<>>
                        /\ \A j \in 1..Len(keyless) : emitted[k].line # keyless[j].line
        /\ run.pc # "done" => Summary(run) = <<>>
        /\ run.pc = "done" =>
              /\ run.stdout = Timeline(run) \o Summary(run)
              /\ Summary(run) = ExpectedSummary(run.file_names, files, arguments)

\* A finished non-strict run that printed a record, and whose summary has
\* two lines of a source that printed no record.
C4_Witness ==
    /\ ~arguments.break_on_date_missing
    /\ run.pc = "done"
    /\ Timeline(run) # <<>>
    /\ \E name \in FileNames :
          /\ Len(KeylessOf(LogicalLines(files[name], arguments))) = 2
          /\ \A k \in 1..Len(Timeline(run)) : Timeline(run)[k].file_name # name
    /\ Len(Summary(run)) = 4

---------------------------------------------------------------------------
(* C5: the key is the leading timestamp of the line as it is in the file   *)

\* The first line of the logical line a source holds as its current record.
CurrentStart(lf, content) ==
    CHOOSE n \in LogicalStarts(content) :
        /\ ReadPast(lf, n)
        /\ \A m \in LogicalStarts(content) : ReadPast(lf, m) => m <= n

\* C5 (as claimed): the key of a matching logical line is the timestamp the
\* trimmed line begins with, and empty only if it begins with none: the
\* current record of a source has the timestamp of its line as key, and a
\* line noted as missing its key, or named by the strict-key error, does not
\* begin with a timestamp.
C5_KeyIsLeadingTimestamp ==
    /\ \A i \in 1..Len(run.log_files) :
          LET lf == run.log_files[i]
              content == files[lf.file_name]
          IN  /\ ~lf.eof =>
                    lf.current_match =
                        get_date(LogicalText(content, CurrentStart(lf, content), arguments))
              /\ \A k \in 1..Len(lf.missing_date_lines) :
                    get_date(LogicalText(content, lf.missing_date_lines[k].line_number,
                                         arguments)) = <<>>
    /\ Aborted(run) =>
          get_date(LogicalText(files[run.stderr.file_name], run.stderr.line_number,
                               arguments)) = <<>>

---------------------------------------------------------------------------
(* C6: ties on the least key go to the first source in file-name order     *)

\* C6: in every iteration of the merge loop the printed record is the
\* current record of an open source, and every open source whose current key
\* equals the printed key stands at or after it in open_files and has a file
\* name that is not smaller; this also after sources have been removed.
C6_TieBreakFirstSource ==
    [][(run.pc = "merge" /\ run.open_files # <<>>) =>
         LET e == run'.stdout[Len(run.stdout) + 1]
         IN  \E p \in 1..Len(run.open_files) :
               /\ run.log_files[run.open_files[p]].file_name = e.file_name
               /\ run.log_files[run.open_files[p]].current_match = e.key
               /\ run.log_files[run.open_files[p]].current_line = e.line
               /\ \A q \in 1..Len(run.open_files) :
                     run.log_files[run.open_files[q]].current_match = e.key =>
                        /\ p <= q
                        /\ StrLeq(e.file_name,
                                  run.log_files[run.open_files[q]].file_name)]_vars

\* The first source printed its record and was removed; the second has since
\* been printed while the third held a record with the same key.
C6_Witness ==
    /\ run.pc = "merge"
    /\ Len(run.log_files) = 3
    /\ run.log_files[1].eof
    /\ ~run.log_files[3].eof
    /\ Len(Timeline(run)) = 2
    /\ Timeline(run)[1].file_name = run.file_names[1]
    /\ Timeline(run)[2].file_name = run.file_names[2]
    /\ Timeline(run)[2].key = run.log_files[3].current_match

---------------------------------------------------------------------------
(* C7: continuation lines are folded into their record, or dropped         *)

\* C7: for a record-start line n followed by continuation lines up to line
\* m > n, once a source has read line n it has read on to line m; the
\* record it then holds has as text all the lines n..m joined when folding
\* is on, and line n alone when it is off (trimmed, the term emphasised),
\* and its look-ahead is the next record start (or the end of the file); no
\* line of n+1..m is noted as missing a key or named by the strict-key
\* error, and line n, when it is noted, is noted with the same text.
C7_ContinuationFolding ==
    \A i \in 1..Len(run.log_files) :
        LET lf == run.log_files[i]
            content == files[lf.file_name]
        IN  \A n \in 1..Len(content) :
              (IsRecordStart(content[n]) /\ LogicalEnd(content, n) > n /\ ReadPast(lf, n)) =>
                 LET m == LogicalEnd(content, n)
                     text == highlight(strip(IF arguments.show_exceptions
                                             THEN Concat(content, n, m)
                                             ELSE content[n]),
                                       arguments.search_expression)
                 IN  /\ lf.line_number > m
                     /\ (~lf.eof /\ CurrentStart(lf, content) = n) =>
                           /\ lf.current_line = text
                           /\ lf.line_number = m + 1
                           /\ lf.next_line = readline(content, m)
                           /\ lf.next_line = <<>> \/ IsRecordStart(lf.next_line)
                     /\ \A k \in 1..Len(lf.missing_date_lines) :
                           /\ lf.missing_date_lines[k].line_number \notin (n + 1)..m
                           /\ lf.missing_date_lines[k].line_number = n =>
                                 lf.missing_date_lines[k].line = text
                     /\ run.stderr.file_name = lf.file_name =>
                           run.stderr.line_number \notin (n + 1)..m

\* With folding on, a source holds a record of two physical lines and its
\* look-ahead is the next record start; the record carries the newline that
\* ended its first line.
C7_Witness ==
    /\ arguments.show_exceptions
    /\ \E i \in 1..Len(run.log_files) :
          LET lf == run.log_files[i]
              content == files[lf.file_name]
          IN  /\ ~lf.eof
              /\ Len(content) = 3
              /\ CurrentStart(lf, content) = 1
              /\ LogicalEnd(content, 1) = 2
              /\ lf.next_line = content[3]
              /\ contains(lf.current_line, <<NL>>)

---------------------------------------------------------------------------
(* C8: a source without a matching line contributes nothing                *)

NoMatch(content, args) ==
    \A n \in LogicalStarts(content) : ~Matches(content, n, args)

\* C8: a source none of whose logical lines contains the search term is at
\* eof once constructed, is not in open_files, has no missing_date_lines,
\* and no line of the output (timeline or summary) or error is about it.
C8_NoMatchNoOutput ==
    \A i \in 1..Len(run.log_files) :
        LET lf == run.log_files[i]
        IN  NoMatch(files[lf.file_name], arguments) =>
              /\ lf.eof
              /\ lf.missing_date_lines = <<>>
              /\ \A p \in 1..Len(run.open_files) : run.open_files[p] # i
              /\ \A k \in 1..Len(run.stdout) : run.stdout[k].file_name # lf.file_name
              /\ run.stderr.file_name # lf.file_name

\* A finished run that printed records and had a source of two lines, none
\* of them matching.
C8_Witness ==
    /\ run.pc = "done"
    /\ Timeline(run) # <<>>
    /\ \E name \in FileNames :
          Len(files[name]) = 2 /\ NoMatch(files[name], arguments)

---------------------------------------------------------------------------
(* C9: every keyed matching record is printed once, in file order          *)

\* C9: when the run ends normally, the records printed from each file are,
\* one for one and in file order, the matching logical lines of that file
\* for which read_line finds a key, each with that key and its text.
C9_EachRecordOnce ==
    run.pc = "done" =>
        \A name \in FileNames :
            LET keyed == KeyedOf(LogicalLines(files[name], arguments))
                emitted == EmittedOf(run, name)
            IN  /\ Len(emitted) = Len(keyed)
                /\ \A k \in 1..Len(keyed) :
                      /\ emitted[k].key = keyed[k].key
                      /\ emitted[k].line = keyed[k].line

\* A finished run in which the two records of one file were printed with a
\* record of another file between them.
C9_Witness ==
    /\ run.pc = "done"
    /\ Len(Timeline(run)) = 3
    /\ Timeline(run)[1].file_name = Timeline(run)[3].file_name
    /\ Timeline(run)[1].file_name # Timeline(run)[2].file_name
    /\ Timeline(run)[1].line # Timeline(run)[3].line

---------------------------------------------------------------------------
(* C10: two runs over the same files and arguments agree                   *)

\* C10: two runs over the same files with the same arguments, each given
\* its own directory listing order and stepped side by side, have at every
\* step printed the same lines, raised the same error and reached the same
\* outcome.
C10_Deterministic ==
    /\ run.stdout = twin.stdout
    /\ run.stderr = twin.stderr
    /\ run.pc = twin.pc

\* Both runs ended normally, having printed two records with the same key
\* from two files and a summary.
C10_Witness ==
    /\ run.pc = "done" /\ twin.pc = "done"
    /\ Len(Timeline(twin)) = 2
    /\ Timeline(twin)[1].key = Timeline(twin)[2].key
    /\ Timeline(twin)[1].file_name # Timeline(twin)[2].file_name
    /\ Summary(twin) # <<>>

---------------------------------------------------------------------------
(* C11: the search term is emphasised, the text is otherwise unchanged     *)

\* A text with the emphasis markers taken out.
Unmarked(text) ==
    replace(replace(text, BOLD \o WARNING, <<>>, Len(text)), ENDC, <<>>, Len(text))

\* The source of the run s that reads the file name.
SourceOf(s, name) ==
    s.log_files[CHOOSE i \in 1..Len(s.log_files) : s.log_files[i].file_name = name]

\* C11: for the record every iteration of the merge loop prints: taking the
\* markers out of its text gives the trimmed logical line as the file has
\* it, and taking the emphasised occurrences of the search term out leaves
\* no occurrence of the term; the printed characters are that text, after
\* the short file name when file names are shown.
C11_HighlightKeepsText ==
    [][(run.pc = "merge" /\ run.open_files # <<>>) =>
         LET e == run'.stdout[Len(run.stdout) + 1]
             content == files[e.file_name]
             term == arguments.search_expression
         IN  /\ Unmarked(e.line) =
                   LogicalText(content, CurrentStart(SourceOf(run, e.file_name), content),
                               arguments)
             /\ ~contains(replace(e.line, BOLD \o WARNING \o term \o ENDC, <<>>,
                                  Len(e.line)),
                          term)
             /\ rendered(e, FALSE) = e.line
             /\ endswith(rendered(e, TRUE), <<":">> \o e.line)]_vars

\* A record was printed whose text holds the search term twice, both
\* occurrences emphasised.
C11_Witness ==
    /\ Timeline(run) # <<>>
    /\ LET e == Timeline(run)[Len(Timeline(run))]
       IN  Len(e.line) = Len(Unmarked(e.line))
                           + 2 * (Len(BOLD) + Len(WARNING) + Len(ENDC))

---------------------------------------------------------------------------
(* C12: the printed record has the least key of the open sources           *)

\* C12: in every iteration of the merge loop the key of the printed record
\* is less than or equal to the current key of every source in open_files.
C12_EmitsLeastKey ==
    [][(run.pc = "merge" /\ run.open_files # <<>>) =>
         \A q \in 1..Len(run.open_files) :
             StrLeq(run'.stdout[Len(run.stdout) + 1].key,
                    run.log_files[run.open_files[q]].current_match)]_vars

\* The first record printed came from the second file, while the first
\* file held a record with a greater key.
C12_Witness ==
    /\ run.pc = "merge"
    /\ Len(Timeline(run)) = 1
    /\ Timeline(run)[1].file_name = run.file_names[2]
    /\ ~run.log_files[1].eof
    /\ StrLess(Timeline(run)[1].key, run.log_files[1].current_match)

---------------------------------------------------------------------------
(* C13: every open source holds its next keyed matching record             *)

\* C13: while the sources are constructed and at every head of the merge
\* loop, a source with eof = FALSE that has printed k records holds in
\* current_line and current_match the (k+1)-th matching logical line with a
\* key of its file, whose key is not empty and whose first line is the last
\* logical line start the source has read past; the last record it printed
\* is the k-th, so none is skipped in between.
C13_PreFetched ==
    run.pc \in {"create", "merge"} =>
        \A i \in 1..Len(run.log_files) :
            LET lf == run.log_files[i]
                content == files[lf.file_name]
                keyed == KeyedOf(LogicalLines(content, arguments))
                emitted == EmittedOf(run, lf.file_name)
                k == Len(emitted)
            IN  ~lf.eof =>
                  /\ k < Len(keyed)
                  /\ lf.current_line = keyed[k + 1].line
                  /\ lf.current_match = keyed[k + 1].key
                  /\ lf.current_match # <<>>
                  /\ keyed[k + 1].line_number = CurrentStart(lf, content)
                  /\ k > 0 => /\ emitted[k].line = keyed[k].line
                              /\ emitted[k].key = keyed[k].key

\* At a head of the merge loop a source that printed its first record and
\* then passed a matching line without a key holds the record of its third
\* line.
C13_Witness ==
    /\ run.pc = "merge"
    /\ \E i \in 1..Len(run.log_files) :
          LET lf == run.log_files[i]
          IN  /\ ~lf.eof
              /\ Len(EmittedOf(run, lf.file_name)) = 1
              /\ Len(lf.missing_date_lines) = 1
              /\ CurrentStart(lf, files[lf.file_name]) = 3

---------------------------------------------------------------------------
(* C14: an exhausted source is out of the merge for good                   *)

RECURSIVE PositionsFrom(_, _)
PositionsFrom(log_files, i) ==
    IF i > Len(log_files) THEN <<>>
    ELSE (IF log_files[i].eof THEN <<>> ELSE <<i>>) \o PositionsFrom(log_files, i + 1)

\* The sources with eof = FALSE, in the order of log_files.
NotAtEof(s) == PositionsFrom(s.log_files, 1)

\* C14: at every head of the merge loop open_files holds exactly the sources
\* with eof = FALSE; a source with eof = TRUE is left as it is by every step,
\* eof included, and has no record printed.
C14_ExhaustedStaysOut ==
    [][/\ run.pc = "merge" => run.open_files = NotAtEof(run)
       /\ run'.pc = "merge" => run'.open_files = NotAtEof(run')
       /\ \A i \in 1..Len(run.log_files) :
             run.log_files[i].eof =>
                /\ run'.log_files[i] = run.log_files[i]
                /\ EmittedOf(run', run.log_files[i].file_name)
                      = EmittedOf(run, run.log_files[i].file_name)]_vars

\* The second source printed a record and reached eof; the first source,
\* still open, printed a record after that.
C14_Witness ==
    /\ run.pc = "merge"
    /\ Len(run.log_files) >= 2
    /\ run.log_files[2].eof
    /\ ~run.log_files[1].eof
    /\ Len(Timeline(run)) = 2
    /\ Timeline(run)[1].file_name = run.log_files[2].file_name
    /\ Timeline(run)[2].file_name = run.log_files[1].file_name

---------------------------------------------------------------------------
(* C15: one iteration prints one record and advances its source only       *)

\* C15: an iteration of the merge loop adds one line to the output, the
\* current record of one open source; that source is advanced (it reads on
\* or reaches eof) and every other source is left as it is.
C15_OneSourceAdvances ==
    [][(run.pc = "merge" /\ run.open_files # <<>>) =>
         LET e == run'.stdout[Len(run.stdout) + 1]
         IN  /\ Len(run'.stdout) = Len(run.stdout) + 1
             /\ e.kind = "record"
             /\ \E p \in 1..Len(run.open_files) :
                   LET i == run.open_files[p]
                   IN  /\ e.file_name = run.log_files[i].file_name
                       /\ e.line = run.log_files[i].current_line
                       /\ e.key = run.log_files[i].current_match
                       /\ \/ run'.log_files[i].eof
                          \/ run'.log_files[i].line_number > run.log_files[i].line_number
                       /\ \A j \in 1..Len(run.log_files) :
                             j # i => run'.log_files[j] = run.log_files[j]]_vars

\* One source printed two records while another, still open, printed none.
C15_Witness ==
    /\ run.pc = "merge"
    /\ Len(Timeline(run)) = 2
    /\ Timeline(run)[1].file_name = Timeline(run)[2].file_name
    /\ \E p \in 1..Len(run.open_files) :
          /\ run.log_files[run.open_files[p]].file_name # Timeline(run)[1].file_name
          /\ ~run.log_files[run.open_files[p]].eof

---------------------------------------------------------------------------
(* C16: lines that are no record start                                     *)

\* C16 (as claimed): a physical line that does not begin with "20" never
\* starts a logical record, wherever it is in the file: no such line is the
\* first line of the current record of a source, of a line noted as missing
\* its key, or of the line the strict-key error names.
C16_ContinuationNeverStartsRecord ==
    /\ \A i \in 1..Len(run.log_files) :
          LET lf == run.log_files[i]
              content == files[lf.file_name]
          IN  /\ (run.pc \in {"create", "merge"} /\ ~lf.eof) =>
                    IsRecordStart(content[CurrentStart(lf, content)])
              /\ \A k \in 1..Len(lf.missing_date_lines) :
                    IsRecordStart(content[lf.missing_date_lines[k].line_number])
    /\ run.stderr # NoError =>
          IsRecordStart(files[run.stderr.file_name][run.stderr.line_number])

---------------------------------------------------------------------------
(* C17: line numbers                                                       *)

\* The line of a file with the 1-based number n, as readline gives it; the
\* empty string past the end.
PhysicalLine(content, n) == IF n \in 1..Len(content) THEN content[n] ELSE <<>>

\* C17: for every source, line_number is the 1-based number of the physical
\* line held in next_line (one past the last line once the file is read to
\* its end); the number noted with a line missing its key, and the number in
\* the strict-key error, is the number of the physical line the logical line
\* of that text starts with.
C17_LineNumbers ==
    /\ \A i \in 1..Len(run.log_files) :
          LET lf == run.log_files[i]
              content == files[lf.file_name]
          IN  /\ lf.line_number \in 1..(Len(content) + 1)
              /\ lf.next_line = PhysicalLine(content, lf.line_number)
              /\ \A k \in 1..Len(lf.missing_date_lines) :
                    LET noted == lf.missing_date_lines[k]
                    IN  /\ noted.line_number \in LogicalStarts(content)
                        /\ noted.line =
                              highlight(LogicalText(content, noted.line_number, arguments),
                                        arguments.search_expression)
    /\ run.stderr # NoError =>
          LET content == files[run.stderr.file_name]
          IN  /\ run.stderr.line_number \in LogicalStarts(content)
              /\ run.stderr.line =
                    highlight(LogicalText(content, run.stderr.line_number, arguments),
                              arguments.search_expression)

\* A line missing its key was noted with the number 3, the line before it
\* being a continuation line of the record at line 1.
C17_Witness ==
    \E i \in 1..Len(run.log_files) :
        LET lf == run.log_files[i]
            content == files[lf.file_name]
        IN  /\ lf.missing_date_lines # <<>>
            /\ lf.missing_date_lines[1].line_number = 3
            /\ IsRecordStart(content[1])
            /\ ~IsRecordStart(content[2])

---------------------------------------------------------------------------
(* C18: the merge terminates                                               *)

\* What a source has left to do: the physical lines from its look-ahead line
\* on, and reaching eof.
Remaining(lf, content) ==
    (Len(content) + 1 - lf.line_number) + (IF lf.eof THEN 0 ELSE 1)

---------------------------------------------------------------------------
(* C19: files in key order give a timeline in key order                    *)

\* The matching logical lines with a key of a file are in non-decreasing
\* order of their keys.
InKeyOrder(content, args) ==
    LET keyed == KeyedOf(LogicalLines(content, args))
    IN  \A k \in 1..(Len(keyed) - 1) : StrLeq(keyed[k].key, keyed[k + 1].key)

\* C19: if in every file the matching records with a key are in
\* non-decreasing key order, the records printed so far are in
\* non-decreasing key order, at every point of the run; put the other way
\* round: the timeline is in key order, or some file is not.
C19_SortedFilesSortedTimeline ==
    \/ \A k \in 1..(Len(Timeline(run)) - 1) :
          StrLeq(Timeline(run)[k].key, Timeline(run)[k + 1].key)
    \/ \E name \in FileNames : ~InKeyOrder(files[name], arguments)

\* Every file is in key order; one source printed a record, another source
\* printed its only record with the same key and was removed, and then the
\* first source printed a record with a greater key.
C19_Witness ==
    /\ \A name \in FileNames : InKeyOrder(files[name], arguments)
    /\ Len(Timeline(run)) = 3
    /\ Timeline(run)[1].file_name = Timeline(run)[3].file_name
    /\ Timeline(run)[2].file_name # Timeline(run)[1].file_name
    /\ Timeline(run)[1].key = Timeline(run)[2].key
    /\ StrLess(Timeline(run)[2].key, Timeline(run)[3].key)
    /\ SourceOf(run, Timeline(run)[2].file_name).eof

---------------------------------------------------------------------------
(* C20: the strict-key timeline is a prefix of the timeline with -i        *)

IsPrefix(a, b) == Len(a) <= Len(b) /\ SubSeq(b, 1, Len(a)) = a

\* C20: over the same files, search term and folding flag, the records the
\* strict-key run has printed are at every point a prefix of the records
\* the run with -i has printed, so also when the strict-key run has
\* aborted; when the strict-key run is done without aborting, the run with
\* -i is done too, and once both are done their timelines are equal and the
\* run with -i printed no summary.
C20_StrictIsPrefix ==
    /\ IsPrefix(Timeline(run), Timeline(twin))
    /\ run.pc = "done" => twin.pc = "done"
    /\ (run.pc = "done" /\ twin.pc = "done") =>
          /\ Timeline(run) = Timeline(twin)
          /\ Summary(twin) = <<>>

\* The strict-key run printed a record and aborted in the merge loop; the
\* run with -i is done, printed more records and a summary.
C20_Witness ==
    /\ run.pc = "died"
    /\ Timeline(run) # <<>>
    /\ twin.pc = "done"
    /\ Len(Timeline(twin)) > Len(Timeline(run))
    /\ Summary(twin) # <<>>

====
